---------------------------- MODULE Spec2Model ----------------------------
(***************************************************************************)
(* The document ingestion pipeline of the curriculum companion: the        *)
(* process-document edge function (its three handlers: the current         *)
(* single-insert handler and the legacy handler of                         *)
(* supabase/functions/process-document/index.ts, and the batched handler   *)
(* of unnamed/part_001), the documents and document_chunks tables with the *)
(* documents_upload_status_check constraint, and the storage bucket.       *)
(*                                                                         *)
(* A run is one invocation of the handler.  Every await on the store is a  *)
(* step of its own; code between two store calls touches only the run's    *)
(* locals and is folded into the store call that follows it.               *)
(***************************************************************************)
EXTENDS Integers, Sequences, FiniteSets, TLC

\* ---------------------------------------------------------------- bounds
\* Largest number of insert batches a modelled document needs.
MaxBatches == 3
\* Chunk indices 0..MaxFailIdx-1 are the ones whose AI gateway call may fail.
MaxFailIdx == 2

\* ------------------------------------------------------- program constants
batchSize == 50
\* The cap on chunks per document that section 4.1 of the design names.
MAX_CHUNKS == 100

Runs == {"r1", "r2"}
Users == {"u1", "u2"}
NoUser == "nobody"
\* The handler that serves a run.
Impls == {"single", "batched", "legacy"}
\* Authorization header of a request: a token of a user, one that resolves
\* to no user, or no header at all.
Tokens == Users \cup {"bad", "missing"}
\* Natural chunk counts of the uploaded texts.
ChunkCounts == {0, 1} \cup {k * batchSize + 1 : k \in 1..(MaxBatches - 1)}
FailIdx == 0..(MaxFailIdx - 1)

\* CHECK (upload_status IS NULL OR upload_status IN (...))
documents_upload_status_check ==
    {"uploading", "extracting_text", "chunking", "storing_chunks",
     "processing", "completed", "error", "failed"}

\* The order of the status state machine, as the upload page lists it.
UPLOAD_STEPS ==
    <<"uploading", "extracting_text", "chunking", "storing_chunks", "completed">>

VARIABLES
    pc,               \* position of each run in the handler
    req,              \* the request of each run: handler, token, form fields
    loc,              \* the handler's locals: user, validChunks, chunkRecords, i
                      \* (textChunks: how many chunks extractedText holds)
    documents,        \* table documents, one row at most per run
    document_chunks,  \* table document_chunks
    storage,          \* objects of bucket curriculum-files
    statusLog,        \* every upload_status value a run wrote, in order
    extractStarted,   \* the run has begun reading the file's bytes
    response,         \* the HTTP response of each run
    ck,               \* one extraction and chunking of a file, step by step
    vz,               \* one text, vectorized once and again
    sc,               \* one question of the chat function, scored
    rt,               \* one chat request against the chunks of all users
    del,              \* handleDelete of the upload page, per document
    chat,             \* one chat request made while documents are ingested
    ui                \* the upload page: timers, intervals, invocations

\* The state of the handler and of the store.
pipeline == <<pc, req, loc, documents, document_chunks, storage, statusLog,
              extractStarted, response>>

\* The variables that no step of the handler touches.
others == <<ck, vz, sc, rt, del, chat, ui>>

vars == <<pc, req, loc, documents, document_chunks, storage, statusLog,
          extractStarted, response, ck, vz, sc, rt, del, chat, ui>>

NoReq == [impl |-> "single", token |-> "missing", hasFile |-> FALSE,
          pathOwner |-> NoUser]
NoLoc == [user |-> NoUser, extractedText |-> "unset", textChunks |-> 0,
          validChunks |-> 0, chunkRecords |-> {}, i |-> 0]
NoDoc == [exists |-> FALSE, user_id |-> NoUser, file_path |-> NoUser,
          upload_status |-> "null", total_chunks |-> 0]
NoResponse == [sent |-> FALSE, status |-> 0, success |-> FALSE,
               chunksProcessed |-> 0]

\* A text: its words (their lengths in characters) and, between two
\* words, a space or a blank line.
EmptyText == [words |-> <<>>, seps |-> <<>>]
NoChunking == [phase |-> "off",
               file |-> [type |-> "text/plain", text |-> EmptyText],
               extractedText |-> EmptyText, chunks |-> <<>>,
               validChunks |-> <<>>]

\* No request in flight, empty tables, empty bucket.
PipelineInit ==
    /\ pc = [r \in Runs |-> "idle"]
    /\ req = [r \in Runs |-> NoReq]
    /\ loc = [r \in Runs |-> NoLoc]
    /\ documents = [r \in Runs |-> NoDoc]
    /\ document_chunks = {}
    /\ storage = {}
    /\ statusLog = [r \in Runs |-> <<>>]
    /\ extractStarted = [r \in Runs |-> FALSE]
    /\ response = [r \in Runs |-> NoResponse]

\* A vector as generateSemanticEmbedding returns it: component p is
\* num[p] / sqrt(den2).
NoVector == [num |-> <<>>, den2 |-> 1]
NoVectorizing == [phase |-> "off", text |-> <<>>, first |-> NoVector,
                  second |-> NoVector]

NoScoring == [phase |-> "off", impl |-> "advanced", chunks |-> <<>>,
              question |-> "", relevantChunks |-> <<>>]

\* A chat request before it arrives.
NoRetrieval == [phase |-> "off", impl |-> "advanced", token |-> "missing",
                user |-> NoUser, table |-> <<>>, question |-> "",
                chunks |-> <<>>, relevantChunks |-> <<>>]

\* handleDelete has not been called for any document.
NoDelete == [r \in Runs |-> "none"]

\* No chat request yet.
NoChat == [asked |-> FALSE, user |-> NoUser, returned |-> {}]

\* The upload page before any file is chosen; pollIntervalRef 0 is null.
NoUpload ==
    [phase |-> "idle", files |-> 0, file |-> 0, timers |-> {},
     intervals |-> {}, polls |-> {}, pollIntervalRef |-> 0,
     resolved |-> {}, uploadProgress |-> "null", autoClear |-> FALSE]

Init ==
    /\ PipelineInit
    /\ ck = NoChunking
    /\ vz = NoVectorizing
    /\ sc = NoScoring
    /\ rt = NoRetrieval
    /\ del = NoDelete
    /\ chat = NoChat
    /\ ui = NoUpload

\* ------------------------------------------------------------ the store

\* The store runs an insert or update of upload_status only if the check
\* constraint accepts the value.
StoreAccepts(status) == status \in documents_upload_status_check

\* An update that finalizes total_chunks with every status it writes.
UpdatedDocumentsFinalizing(r, status, setTotal, total) ==
    IF documents[r].exists /\ StoreAccepts(status)
    THEN [documents EXCEPT ![r].upload_status = status,
                           ![r].total_chunks =
                               IF setTotal THEN total ELSE loc[r].textChunks]
    ELSE documents

\* An update without the filter on the row's id: every existing row of the
\* owner takes the status.
UpdatedDocumentsOfOwner(r, status, setTotal, total) ==
    IF documents[r].exists /\ StoreAccepts(status)
    THEN [x \in Runs |->
            IF documents[x].exists
                   /\ documents[x].user_id = documents[r].user_id
            THEN [documents[x] EXCEPT
                      !.upload_status = status,
                      !.total_chunks = IF setTotal THEN total ELSE @]
            ELSE documents[x]]
    ELSE documents

\* supabase.from('documents').update({upload_status, ...}).eq('id', doc.id):
\* the row of run r only; a rejected update leaves the row as it was and its
\* error is returned, not thrown.
UpdatedDocuments(r, status, setTotal, total) ==
    IF documents[r].exists /\ StoreAccepts(status)
    THEN [documents EXCEPT ![r].upload_status = status,
                           ![r].total_chunks =
                               IF setTotal THEN total ELSE @]
    ELSE documents

LoggedStatus(r, status) ==
    [statusLog EXCEPT ![r] =
        Append(@, [value |-> status, accepted |-> StoreAccepts(status)])]

\* A chunk record whose owner is not the user of the request at hand.
ChunkRecordOfOneUser(r, user, i, emb) ==
    [document_id |-> r, user_id |-> CHOOSE u \in Users : TRUE,
     chunk_index |-> i, page_number |-> (i \div 3) + 1, embedding |-> emb]

\* One element of chunkRecords.
ChunkRecord(r, user, i, emb) ==
    [document_id |-> r, user_id |-> user, chunk_index |-> i,
     page_number |-> (i \div 3) + 1, embedding |-> emb]

\* The catch block of the handler: the response of a run that threw.
ErrorResponse ==
    [sent |-> TRUE, status |-> 500, success |-> FALSE, chunksProcessed |-> 0]

\* The response of a run that reached the end of the try block.
SuccessResponse(n) ==
    [sent |-> TRUE, status |-> 200, success |-> TRUE, chunksProcessed |-> n]

\* throw ... -> catch (error) -> return new Response(..., { status: 500 })
Throw(r) ==
    /\ response' = [response EXCEPT ![r] = ErrorResponse]
    /\ pc' = [pc EXCEPT ![r] = "done"]

\* -------------------------------------------------------------- the handler

\* A request arrives: serve(async (req) => ...
Request(r) ==
    /\ pc[r] = "idle"
    /\ \E impl \in Impls, token \in Tokens :
          req' = [req EXCEPT ![r] = [NoReq EXCEPT !.impl = impl,
                                                  !.token = token]]
    /\ pc' = [pc EXCEPT ![r] = "auth"]
    /\ UNCHANGED <<others, loc, documents, document_chunks, storage, statusLog,
                   extractStarted, response>>

\* supabase.auth.getUser(token); a missing header throws on .replace.
GetUser(r) ==
    /\ pc[r] = "auth"
    /\ IF req[r].token \in Users
       THEN /\ loc' = [loc EXCEPT ![r].user = req[r].token]
            /\ pc' = [pc EXCEPT ![r] = "form"]
            /\ UNCHANGED response
       ELSE /\ Throw(r)
            /\ UNCHANGED loc
    /\ UNCHANGED <<others, req, documents, document_chunks, storage, statusLog,
                   extractStarted>>

\* req.formData(): the handler reads the fields file and title only; a
\* storage path the caller adds to the form is never looked at.
ReadForm(r) ==
    /\ pc[r] = "form"
    /\ \E hasFile \in BOOLEAN, pathOwner \in Users \cup {NoUser} :
          /\ req' = [req EXCEPT ![r].hasFile = hasFile,
                                ![r].pathOwner = pathOwner]
          /\ IF hasFile
             THEN /\ pc' = [pc EXCEPT ![r] = "upload"]
                  /\ UNCHANGED response
             ELSE Throw(r)
    /\ UNCHANGED <<others, loc, documents, document_chunks, storage, statusLog,
                   extractStarted>>

\* filePath = `${user.id}/${Date.now()}_${file.name}`; storage.upload
UploadFile(r) ==
    /\ pc[r] = "upload"
    /\ \E uploadError \in BOOLEAN :
          IF uploadError
          THEN /\ Throw(r)
               /\ UNCHANGED storage
          ELSE /\ storage' = storage \cup
                     {[prefix |-> loc[r].user, object |-> r]}
               /\ pc' = [pc EXCEPT ![r] = "insertDoc"]
               /\ UNCHANGED response
    /\ UNCHANGED <<others, req, loc, documents, document_chunks, statusLog,
                   extractStarted>>

\* The upload_status of the documents insert.
InitialStatus(impl) ==
    IF impl = "legacy" THEN "processing" ELSE "extracting_text"

\* supabase.from('documents').insert({...}).select().single()
InsertDocument(r) ==
    /\ pc[r] = "insertDoc"
    /\ \E docError \in BOOLEAN :
          IF docError \/ ~StoreAccepts(InitialStatus(req[r].impl))
          THEN /\ Throw(r)
               /\ UNCHANGED <<documents, statusLog>>
          ELSE /\ documents' = [documents EXCEPT ![r] =
                     [exists |-> TRUE, user_id |-> loc[r].user,
                      file_path |-> loc[r].user,
                      upload_status |-> InitialStatus(req[r].impl),
                      total_chunks |-> 0]]
               /\ statusLog' = LoggedStatus(r, InitialStatus(req[r].impl))
               /\ pc' = [pc EXCEPT ![r] = "extract"]
               /\ UNCHANGED response
    /\ UNCHANGED <<others, req, loc, document_chunks, storage, extractStarted>>

\* What the extraction block can assign to extractedText: the decoded text,
\* or (PDF with too little text, or a throw inside the inner try) a
\* placeholder naming the file.  The legacy handler has no placeholder.
ExtractionKinds(impl) ==
    IF impl = "legacy" THEN {"text"} ELSE {"text", "placeholder"}

\* const arrayBuffer = await file.arrayBuffer() and the decoding that
\* follows (legacy: await file.text()).  Reading the bytes is outside the
\* inner try, so a failed read reaches the handler's catch; whatever the
\* inner try does ends in some extractedText, here the number of chunks it
\* holds (a placeholder text holds one).
ExtractText(r) ==
    /\ pc[r] = "extract"
    /\ extractStarted' = [extractStarted EXCEPT ![r] = TRUE]
    /\ \E readThrows \in BOOLEAN, kind \in ExtractionKinds(req[r].impl),
          n \in ChunkCounts :
          IF readThrows
          THEN /\ Throw(r)
               /\ UNCHANGED loc
          ELSE /\ kind = "placeholder" => n = 1
               /\ loc' = [loc EXCEPT ![r].extractedText = kind,
                                     ![r].textChunks = n]
               /\ pc' = [pc EXCEPT ![r] =
                     IF req[r].impl = "legacy" THEN "legacyEmbed"
                     ELSE "setChunking"]
               /\ UNCHANGED response
    /\ UNCHANGED <<others, req, documents, document_chunks, storage, statusLog>>

\* update({ upload_status: 'chunking' })
UpdateChunking(r) ==
    /\ pc[r] = "setChunking"
    /\ documents' = UpdatedDocuments(r, "chunking", FALSE, 0)
    /\ statusLog' = LoggedStatus(r, "chunking")
    /\ pc' = [pc EXCEPT ![r] = "chunk"]
    /\ UNCHANGED <<others, req, loc, document_chunks, storage, extractStarted,
                   response>>

\* validChunks = chunks.filter(c => c.length > 10): every chunk of the text,
\* no cap on their number.
ValidChunks(r) == loc[r].textChunks

\* A handler that steps back to an earlier status once chunking is done.
EmbeddingStatusStepsBack == "extracting_text"

\* The status written once chunking is done.
EmbeddingStatus == "generating_embeddings"

\* The smart chunking loop, then update({ upload_status:
\* 'generating_embeddings' }).
ChunkText(r) ==
    /\ pc[r] = "chunk"
    /\ loc' = [loc EXCEPT ![r].validChunks = ValidChunks(r)]
    /\ documents' = UpdatedDocuments(r, EmbeddingStatus, FALSE, 0)
    /\ statusLog' = LoggedStatus(r, EmbeddingStatus)
    /\ pc' = [pc EXCEPT ![r] = "embed"]
    /\ UNCHANGED <<others, req, document_chunks, storage, extractStarted,
                   response>>

\* chunkRecords of the single-insert handler (validChunks.map) and of the
\* batched handler (the loop over validChunks: a failed or non-OK AI call
\* falls back to the embedding of the raw chunk, the record is pushed either
\* way).  bad: the chunks whose AI call failed.
ChunkRecords(r, bad) ==
    {ChunkRecord(r, loc[r].user, i,
                 IF req[r].impl = "single" THEN "none"
                 ELSE IF i \in bad THEN "raw" ELSE "enriched")
       : i \in 0..(loc[r].validChunks - 1)}

\* Building chunkRecords, then update({ upload_status: 'storing_chunks' }).
EmbedChunks(r) ==
    /\ pc[r] = "embed"
    /\ \E bad \in SUBSET (FailIdx \cap 0..(loc[r].validChunks - 1)) :
          /\ req[r].impl = "single" => bad = {}
          /\ loc' = [loc EXCEPT ![r].chunkRecords = ChunkRecords(r, bad),
                                ![r].i = 0]
    /\ documents' = UpdatedDocuments(r, "storing_chunks", FALSE, 0)
    /\ statusLog' = LoggedStatus(r, "storing_chunks")
    /\ pc' = [pc EXCEPT ![r] =
          IF req[r].impl = "batched" /\ loc[r].validChunks = 0
          THEN "setCompleted" ELSE "store"]
    /\ UNCHANGED <<others, req, document_chunks, storage, extractStarted,
                   response>>

\* The legacy handler: fixed-size chunks, then one try per chunk around the
\* AI call; a chunk whose call throws is logged and gets no record.
LegacyRecords(r, n, bad) ==
    {ChunkRecord(r, loc[r].user, i, "hash") : i \in (0..(n - 1)) \ bad}

LegacyEmbed(r) ==
    /\ pc[r] = "legacyEmbed"
    /\ \E bad \in SUBSET (FailIdx \cap 0..(loc[r].textChunks - 1)) :
          loc' = [loc EXCEPT
                    ![r].validChunks = loc[r].textChunks,
                    ![r].chunkRecords =
                        LegacyRecords(r, loc[r].textChunks, bad),
                    ![r].i = 0]
    /\ pc' = [pc EXCEPT ![r] = "store"]
    /\ UNCHANGED <<others, req, documents, document_chunks, storage, statusLog,
                   extractStarted, response>>

\* The records of one insert: all of them (single, legacy) or
\* chunkRecords.slice(i, i + batchSize).
Batch(r) ==
    IF req[r].impl = "batched"
    THEN {c \in loc[r].chunkRecords :
             /\ loc[r].i <= c.chunk_index
             /\ c.chunk_index < loc[r].i + batchSize}
    ELSE loc[r].chunkRecords

\* Whether the insert just made was the last one of the run.
LastInsert(r) ==
    req[r].impl = "batched" =>
        loc[r].i + batchSize >= Cardinality(loc[r].chunkRecords)

\* An insert that may reference a document that is not there.
ForeignKeyUnchecked(r) == TRUE

\* document_id UUID NOT NULL REFERENCES public.documents: an insert of
\* chunks of a document that is not in the table fails.
ForeignKeyHolds(r) == documents[r].exists

\* supabase.from('document_chunks').insert(batch); if (chunksError) throw
InsertChunks(r) ==
    /\ pc[r] = "store"
    /\ \E chunksError \in BOOLEAN :
          IF chunksError \/ ~ForeignKeyHolds(r)
          THEN /\ Throw(r)
               /\ UNCHANGED <<document_chunks, loc>>
          ELSE /\ document_chunks' = document_chunks \cup Batch(r)
               /\ loc' = [loc EXCEPT ![r].i =
                     IF req[r].impl = "batched" THEN @ + batchSize ELSE @]
               /\ pc' = [pc EXCEPT ![r] =
                     IF LastInsert(r) THEN "setCompleted" ELSE "store"]
               /\ UNCHANGED response
    /\ UNCHANGED <<others, req, documents, storage, statusLog, extractStarted>>

\* update({ upload_status: 'completed', total_chunks: validChunks.length })
\* (legacy: chunks.length), then the success response.
UpdateCompleted(r) ==
    /\ pc[r] = "setCompleted"
    /\ documents' = UpdatedDocuments(r, "completed", TRUE, loc[r].validChunks)
    /\ statusLog' = LoggedStatus(r, "completed")
    /\ response' = [response EXCEPT ![r] =
          SuccessResponse(loc[r].validChunks)]
    /\ pc' = [pc EXCEPT ![r] = "done"]
    /\ UNCHANGED <<others, req, loc, document_chunks, storage, extractStarted>>

\* Every step of the handler serving run r.
Run(r) ==
    \/ Request(r)
    \/ GetUser(r)
    \/ ReadForm(r)
    \/ UploadFile(r)
    \/ InsertDocument(r)
    \/ ExtractText(r)
    \/ UpdateChunking(r)
    \/ ChunkText(r)
    \/ EmbedChunks(r)
    \/ LegacyEmbed(r)
    \/ InsertChunks(r)
    \/ UpdateCompleted(r)

\* One invocation of the handler, alone on the store: the upload page sends
\* its files one request at a time.
Solo == "r1"

Next == Run(Solo)

Spec == Init /\ [][Next]_vars

\* Several invocations at once, by the same or by different users, their
\* store calls interleaved in every order.  To keep the interleavings
\* countable the requests are the well-formed ones (a valid token, no
\* storage path field, a decoded text of at most two batches, an AI gateway
\* that fails for no chunk or, in the legacy handler, for some).
WellFormed(r) ==
    /\ pc[r] # "idle" => req[r].token \in Users
    /\ req[r].pathOwner = NoUser
    /\ loc[r].extractedText # "placeholder"
    /\ loc[r].textChunks \in {0, 1, batchSize + 1}
    /\ \A c \in loc[r].chunkRecords : c.embedding # "raw"

NextConc ==
    \E r \in Runs :
        \/ Request(r) /\ WellFormed(r)'
        \/ GetUser(r) /\ WellFormed(r)'
        \/ ReadForm(r) /\ WellFormed(r)'
        \/ UploadFile(r) /\ WellFormed(r)'
        \/ InsertDocument(r) /\ WellFormed(r)'
        \/ ExtractText(r) /\ WellFormed(r)'
        \/ UpdateChunking(r) /\ WellFormed(r)'
        \/ ChunkText(r) /\ WellFormed(r)'
        \/ EmbedChunks(r) /\ WellFormed(r)'
        \/ LegacyEmbed(r) /\ WellFormed(r)'
        \/ InsertChunks(r) /\ WellFormed(r)'
        \/ UpdateCompleted(r) /\ WellFormed(r)'

SpecConc == Init /\ [][NextConc]_vars

\* ----------------------------------------------------- deleting a document
\* handleDelete of the upload page, called by the owner for a document
\* that the page lists, at any moment of the document's ingestion.

\* REFERENCES public.documents ON DELETE CASCADE, and the explicit delete
\* of handleDelete: the chunks left once those of document r are gone.
WithoutChunksOf(r) == {c \in document_chunks : c.document_id # r}

\* supabase.from('document_chunks').delete().eq('document_id', id); its
\* result is not looked at.
DeleteChunks(r) ==
    /\ del[r] = "none"
    /\ documents[r].exists
    /\ document_chunks' = WithoutChunksOf(r)
    /\ del' = [del EXCEPT ![r] = "chunks"]
    /\ UNCHANGED <<pc, req, loc, documents, storage, statusLog,
                   extractStarted, response, ck, vz, sc, rt, chat, ui>>

\* supabase.from('documents').delete().eq('id', id); if (error) throw
DeleteDocument(r) ==
    /\ del[r] = "chunks"
    /\ \E error \in BOOLEAN :
          IF error
          THEN /\ del' = [del EXCEPT ![r] = "failed"]
               /\ UNCHANGED <<documents, document_chunks>>
          ELSE /\ documents' = [documents EXCEPT ![r] = NoDoc]
               /\ document_chunks' = WithoutChunksOf(r)
               /\ del' = [del EXCEPT ![r] = "done"]
    /\ UNCHANGED <<pc, req, loc, storage, statusLog, extractStarted,
                   response, ck, vz, sc, rt, chat, ui>>

\* One ingestion run and the deletion of its document, interleaved in
\* every order.
NextDelete ==
    \/ Request(Solo)
    \/ GetUser(Solo)
    \/ ReadForm(Solo)
    \/ UploadFile(Solo)
    \/ InsertDocument(Solo)
    \/ ExtractText(Solo)
    \/ UpdateChunking(Solo)
    \/ ChunkText(Solo)
    \/ EmbedChunks(Solo)
    \/ LegacyEmbed(Solo)
    \/ InsertChunks(Solo)
    \/ UpdateCompleted(Solo)
    \/ DeleteChunks(Solo)
    \/ DeleteDocument(Solo)

SpecDelete == Init /\ [][NextDelete]_vars

\* ------------------------------------------------- chat during ingestion
\* A chat request of a user while a document is ingested.  Its query reads
\* the table as it is at that moment; which of the fetched chunks score
\* above zero depends on the question, so the documents with a chunk among
\* the returned ones may be any of those with a fetched chunk.

\* The documents of which the query returns a chunk: the filter is
\* .eq('user_id', user.id) and nothing else.
DocumentsFetched(user) ==
    {c.document_id : c \in {x \in document_chunks : x.user_id = user}}

ChatRequest(user) ==
    /\ ~chat.asked
    /\ \E docs \in SUBSET DocumentsFetched(user) :
          chat' = [asked |-> TRUE, user |-> user,
                   returned |->
                       {[document_id |-> r,
                         upload_status |-> documents[r].upload_status]
                          : r \in docs}]
    /\ UNCHANGED <<pipeline, ck, vz, sc, rt, del, ui>>

NextChat ==
    \/ Request(Solo)
    \/ GetUser(Solo)
    \/ ReadForm(Solo)
    \/ UploadFile(Solo)
    \/ InsertDocument(Solo)
    \/ ExtractText(Solo)
    \/ UpdateChunking(Solo)
    \/ ChunkText(Solo)
    \/ EmbedChunks(Solo)
    \/ LegacyEmbed(Solo)
    \/ InsertChunks(Solo)
    \/ UpdateCompleted(Solo)
    \/ \E user \in Users : ChatRequest(user)

SpecChat == Init /\ [][NextChat]_vars

\* ------------------------------------------------------- the upload page
\* handleFileUpload of the curriculum page: the files of one selection are
\* processed one after the other.  A timer or interval is named by the file
\* whose iteration created it.

MaxFiles == 2

\* clearInterval(pollIntervalRef.current) when the ref is set.
ClearedIntervals(u) ==
    IF u.pollIntervalRef # 0 THEN u.intervals \ {u.pollIntervalRef}
    ELSE u.intervals

\* One iteration of the loop up to its await: the interval of the ref is
\* cleared (the ref keeps its value), the progress is set to uploading, the
\* function is invoked and the 500 ms timer started.
BeginFile(u, f) ==
    [u EXCEPT !.phase = "awaiting", !.file = f,
              !.intervals = ClearedIntervals(u),
              !.uploadProgress = "uploading",
              !.timers = @ \cup {f}]

\* The iteration after its await: polling is cleared, the outcome shown;
\* a success starts the 2 s timer that clears the progress.
EndFile(u, outcome) ==
    [u EXCEPT !.intervals = ClearedIntervals(u),
              !.pollIntervalRef = 0,
              !.resolved = @ \cup {u.file},
              !.uploadProgress =
                  IF outcome = "success" THEN "completed" ELSE "error",
              !.autoClear = @ \/ outcome = "success"]

\* The user chooses files; without files or session nothing happens.
HandleFileUpload ==
    /\ ui.phase = "idle"
    /\ \E files \in 0..MaxFiles, session \in BOOLEAN :
          ui' = IF ~session THEN [ui EXCEPT !.phase = "finished"]
                ELSE IF files = 0
                THEN [ui EXCEPT !.phase = "finished", !.files = files]
                ELSE BeginFile([ui EXCEPT !.files = files], 1)
    /\ UNCHANGED <<pipeline, ck, vz, sc, rt, del, chat>>

\* The invocation of the file at hand resolves: with success, with
\* data.success false, or with an error.  The loop goes on to the next
\* file in the same turn.
InvokeResolves ==
    /\ ui.phase = "awaiting"
    /\ \E outcome \in {"success", "failure", "error"} :
          LET u == EndFile(ui, outcome)
          IN  ui' = IF ui.file < ui.files THEN BeginFile(u, ui.file + 1)
                    ELSE [u EXCEPT !.phase = "finished"]
    /\ UNCHANGED <<pipeline, ck, vz, sc, rt, del, chat>>

\* The 500 ms timer of file f fires and starts the polling interval.
StartPolling(f) ==
    /\ f \in ui.timers
    /\ ui' = [ui EXCEPT !.timers = @ \ {f},
                        !.intervals = @ \cup {f},
                        !.pollIntervalRef = f]
    /\ UNCHANGED <<pipeline, ck, vz, sc, rt, del, chat>>

\* The interval of file f fires: the status query is sent.
PollFires(f) ==
    /\ f \in ui.intervals
    /\ f \notin ui.polls
    /\ ui' = [ui EXCEPT !.polls = @ \cup {f}]
    /\ UNCHANGED <<pipeline, ck, vz, sc, rt, del, chat>>

\* The status query returns: a status that is one of the steps is shown,
\* unless the progress is null.
PollReturns(f) ==
    /\ f \in ui.polls
    /\ \E status \in documents_upload_status_check \cup {"null"} :
          ui' = [ui EXCEPT
                   !.polls = @ \ {f},
                   !.uploadProgress =
                       IF /\ \E i \in 1..Len(UPLOAD_STEPS) :
                                UPLOAD_STEPS[i] = status
                          /\ @ # "null"
                       THEN status ELSE @]
    /\ UNCHANGED <<pipeline, ck, vz, sc, rt, del, chat>>

\* The 2 s timer after a success clears the progress.
AutoClear ==
    /\ ui.autoClear
    /\ ui' = [ui EXCEPT !.autoClear = FALSE, !.uploadProgress = "null"]
    /\ UNCHANGED <<pipeline, ck, vz, sc, rt, del, chat>>

UploadNext ==
    \/ HandleFileUpload
    \/ InvokeResolves
    \/ \E f \in 1..MaxFiles : StartPolling(f)
    \/ \E f \in 1..MaxFiles : PollFires(f)
    \/ \E f \in 1..MaxFiles : PollReturns(f)
    \/ AutoClear

SpecUpload == Init /\ [][UploadNext]_vars

\* ------------------------------------------------ extraction and chunking
\* The text of a file is its words and what separates them; a word is known
\* by its place in the text and its length.  Words hold no white space and
\* the text neither starts nor ends with any, so trim() changes nothing.

maxChunkSize == 1500
\* Most words a modelled file holds.
MaxWords == 4
\* Lengths of words: a short one, half the chunk size, more than a chunk.
WordLens == {4, 750, 1501}
Seps == {"space", "blank"}
FileTypes == {"text/plain", "application/pdf"}
Texts ==
    UNION {[words : [1..n -> WordLens], seps : [1..(n - 1) -> Seps]]
             : n \in 0..MaxWords}

\* The budget of characters that section 4.2 of the design names.
MAX_TEXT_CHARS == 3000

SepLen(sep) == IF sep = "blank" THEN 2 ELSE 1

RECURSIVE SumSeq(_, _)
SumSeq(f, n) == IF n = 0 THEN 0 ELSE f[n] + SumSeq(f, n - 1)

\* text.length
TextLen(t) ==
    SumSeq(t.words, Len(t.words))
    + SumSeq([i \in DOMAIN t.seps |-> SepLen(t.seps[i])], Len(t.seps))

\* `[PDF Document: ${file.name}] This document may require OCR processing
\* for full text extraction. Partial content extracted.`, the name a.pdf
PlaceholderText ==
    [words |-> <<4, 9, 6, 4, 8, 3, 7, 3, 10, 3, 4, 4, 11, 7, 7, 10>>,
     seps |-> [i \in 1..15 |-> "space"]]

\* .replace(/\s+/g, ' ')
Collapsed(t) == [words |-> t.words, seps |-> [i \in DOMAIN t.seps |-> "space"]]

\* The extraction block.  A file of printable text is one match of
\* /[\x20-\x7E\n\r\t]+/g; the PDF branch keeps it if it is longer than 20
\* characters, collapses its white space and, under 100 characters, swaps
\* it for the placeholder.  Any other file is decoded as it is, whole.
ExtractedText(file) ==
    IF file.type = "application/pdf"
    THEN LET kept == IF TextLen(file.text) > 20
                     THEN Collapsed(file.text) ELSE EmptyText
         IN  IF TextLen(kept) < 100 THEN PlaceholderText ELSE kept
    ELSE file.text

\* extractedText.split(/\n\n+/): the paragraphs, each the places of its
\* words; the empty text has one empty paragraph.
RECURSIVE SplitFrom(_, _, _, _)
SplitFrom(t, k, paras, para) ==
    IF k > Len(t.words) THEN Append(paras, para)
    ELSE IF k > 1 /\ t.seps[k - 1] = "blank"
         THEN SplitFrom(t, k + 1, Append(paras, para), <<k>>)
         ELSE SplitFrom(t, k + 1, paras, Append(para, k))

Split(t) == SplitFrom(t, 1, <<>>, <<>>)

\* para.length
ParaLen(t, para) ==
    IF para = <<>> THEN 0
    ELSE SumSeq([j \in DOMAIN para |-> t.words[para[j]]], Len(para))
         + Len(para) - 1

\* A chunk under construction or pushed: the words it holds, in order, and
\* its length as a string.
EmptyChunk == [toks |-> <<>>, len |-> 0]

\* A test that sends every paragraph to a chunk of its own.
OverflowsAlways(cur, n) == cur.len > 0

\* (currentChunk + para).length > maxChunkSize
Overflows(cur, n) == cur.len + n > maxChunkSize

\* if (currentChunk.trim()) chunks.push(currentChunk.trim())
Flushed(chunks, cur) == IF cur.len > 0 THEN Append(chunks, cur) ELSE chunks

\* currentChunk += (currentChunk ? '\n\n' : '') + para
Merged(cur, para, n) ==
    [toks |-> cur.toks \o para,
     len |-> cur.len + (IF cur.len > 0 THEN 2 ELSE 0) + n]

\* A flush that forgets the word that did not fit.
AfterFlushDropsWord(k, w) == EmptyChunk

\* currentChunk = word
AfterFlush(k, w) == [toks |-> <<k>>, len |-> w]

\* currentChunk += (currentChunk ? ' ' : '') + word
AddWord(cur, k, w) ==
    [toks |-> Append(cur.toks, k),
     len |-> cur.len + (IF cur.len > 0 THEN 1 ELSE 0) + w]

\* for (const word of words): the split of a paragraph that is too long.
RECURSIVE WordLoop(_, _, _, _, _)
WordLoop(t, para, j, chunks, cur) ==
    IF j > Len(para) THEN [chunks |-> chunks, cur |-> cur]
    ELSE LET k == para[j]
             w == t.words[k]
         IN  IF cur.len + 1 + w > maxChunkSize
             THEN WordLoop(t, para, j + 1, Flushed(chunks, cur),
                           AfterFlush(k, w))
             ELSE WordLoop(t, para, j + 1, chunks, AddWord(cur, k, w))

\* for (const para of paragraphs), then the push of the last chunk.
RECURSIVE ParaLoop(_, _, _, _, _)
ParaLoop(t, paras, p, chunks, cur) ==
    IF p > Len(paras) THEN Flushed(chunks, cur)
    ELSE LET para == paras[p]
             n == ParaLen(t, para)
         IN  IF Overflows(cur, n)
             THEN IF n > maxChunkSize
                  THEN LET st == WordLoop(t, para, 1, Flushed(chunks, cur),
                                          EmptyChunk)
                       IN  ParaLoop(t, paras, p + 1, st.chunks, st.cur)
                  ELSE ParaLoop(t, paras, p + 1, Flushed(chunks, cur),
                                [toks |-> para, len |-> n])
             ELSE ParaLoop(t, paras, p + 1, chunks, Merged(cur, para, n))

\* The smart chunking of a text.
SmartChunks(t) == ParaLoop(t, Split(t), 1, <<>>, EmptyChunk)

\* chunks.filter(c => c.length > 10)
FilterChunks(chunks) == SelectSeq(chunks, LAMBDA c : c.len > 10)

\* A file arrives at the extraction block.
ChunkerInit ==
    /\ PipelineInit
    /\ ck \in {[NoChunking EXCEPT !.phase = "file",
                                  !.file = [type |-> ty, text |-> t]]
                 : ty \in FileTypes, t \in Texts}
    /\ vz = NoVectorizing
    /\ sc = NoScoring
    /\ rt = NoRetrieval
    /\ del = NoDelete
    /\ chat = NoChat
    /\ ui = NoUpload

ExtractFile ==
    /\ ck.phase = "file"
    /\ ck' = [ck EXCEPT !.phase = "extracted",
                        !.extractedText = ExtractedText(ck.file)]
    /\ UNCHANGED <<pipeline, vz, sc, rt, del, chat, ui>>

ChunkExtracted ==
    /\ ck.phase = "extracted"
    /\ ck' = [ck EXCEPT !.phase = "chunked",
                        !.chunks = SmartChunks(ck.extractedText),
                        !.validChunks =
                            FilterChunks(SmartChunks(ck.extractedText))]
    /\ UNCHANGED <<pipeline, vz, sc, rt, del, chat, ui>>

ChunkerNext == ExtractFile \/ ChunkExtracted

SpecChunker == ChunkerInit /\ [][ChunkerNext]_vars

\* ---------------------------------------------------------- vectorizing
\* A text is its characters, by code.

VectorSize == 384
\* Most characters a modelled text holds.
MaxChars == 7
\* "A", "b" and the space.
Chars == {65, 98, 32}
VecTexts == UNION {[1..n -> Chars] : n \in 0..MaxChars}

\* The weight 1 / (i + 1) is held as WeightUnit \div (i + 1), a whole
\* number for every word a text of this size can hold.
WeightUnit == 840

\* text.toLowerCase(), one character
ToLowerCase(c) == IF c \in 65..90 THEN c + 32 ELSE c

\* \w of the regular expression
IsWordChar(c) == c \in (48..57) \cup (65..90) \cup {95} \cup (97..122)

\* split(/\W+/): a run of other characters ends a word; a text that starts
\* or ends with one has an empty word there.
RECURSIVE SplitNonWord(_, _, _, _, _)
SplitNonWord(text, k, words, word, inRun) ==
    IF k > Len(text) THEN Append(words, word)
    ELSE IF IsWordChar(text[k])
         THEN SplitNonWord(text, k + 1, words, Append(word, text[k]), FALSE)
         ELSE IF inRun
              THEN SplitNonWord(text, k + 1, words, word, TRUE)
              ELSE SplitNonWord(text, k + 1, Append(words, word), <<>>, TRUE)

\* A filter that also drops the words of 3 characters.
LongEnoughOver3(w) == Len(w) > 3

\* w.length > 2
LongEnough(w) == Len(w) > 2

\* text.toLowerCase().split(/\W+/).filter(w => w.length > 2)
VecWords(text) ==
    SelectSeq(SplitNonWord([k \in DOMAIN text |-> ToLowerCase(text[k])],
                           1, <<>>, <<>>, FALSE),
              LongEnough)

\* (i * 7 + j * 13 + charCode) % 384
Position(i, j, charCode) == (i * 7 + j * 13 + charCode) % VectorSize

\* The two loops: embedding[position] += 1 / (i + 1).  Here i and j count
\* from 1 and the code's from 0.
RECURSIVE Accumulate(_, _, _, _)
Accumulate(words, i, j, embedding) ==
    IF i > Len(words) THEN embedding
    ELSE IF j > Len(words[i]) THEN Accumulate(words, i + 1, 1, embedding)
    ELSE LET position == Position(i - 1, j - 1, words[i][j])
         IN  Accumulate(words, i, j + 1,
                        [embedding EXCEPT
                             ![position] = @ + WeightUnit \div i])

\* embedding.reduce((sum, val) => sum + val * val, 0), over the components
\* lo to hi, summed by halves.
RECURSIVE SumSquares(_, _, _)
SumSquares(v, lo, hi) ==
    IF lo > hi THEN 0
    ELSE IF lo = hi THEN v[lo] * v[lo]
    ELSE LET mid == (lo + hi) \div 2
         IN  SumSquares(v, lo, mid) + SumSquares(v, mid + 1, hi)

\* generateSemanticEmbedding: every component is divided by the magnitude
\* if that is above 0, and left as it is otherwise.
generateSemanticEmbedding(text) ==
    LET embedding == Accumulate(VecWords(text), 1, 1,
                                [p \in 0..(VectorSize - 1) |-> 0])
        magnitude2 == SumSquares(embedding, 0, VectorSize - 1)
    IN  [num |-> embedding,
         den2 |-> IF magnitude2 > 0 THEN magnitude2
                  ELSE WeightUnit * WeightUnit]

VectorizerInit ==
    /\ PipelineInit
    /\ ck = NoChunking
    /\ vz \in {[NoVectorizing EXCEPT !.phase = "text", !.text = t]
                 : t \in VecTexts}
    /\ sc = NoScoring
    /\ rt = NoRetrieval
    /\ del = NoDelete
    /\ chat = NoChat
    /\ ui = NoUpload

Vectorize ==
    /\ vz.phase = "text"
    /\ vz' = [vz EXCEPT !.phase = "once",
                        !.first = generateSemanticEmbedding(vz.text)]
    /\ UNCHANGED <<pipeline, ck, sc, rt, del, chat, ui>>

VectorizeAgain ==
    /\ vz.phase = "once"
    /\ vz' = [vz EXCEPT !.phase = "twice",
                        !.second = generateSemanticEmbedding(vz.text)]
    /\ UNCHANGED <<pipeline, ck, sc, rt, del, chat, ui>>

VectorizerNext == Vectorize \/ VectorizeAgain

SpecVectorizer == VectorizerInit /\ [][VectorizerNext]_vars

\* ------------------------------------------------------------ retrieval
\* The chat function scores the chunks of the user against the question.
\* Texts are strings; questions hold letters and white space only.  Scores
\* are held in thousandths.

\* Most chunks the user has stored.
MaxCorpus == 7
\* .limit(10) of the simple scorer's query
limit == 10
ChatImpls == {"advanced", "simple"}
\* .slice(0, 6) and .slice(0, 5)
TopK(impl) == IF impl = "advanced" THEN 6 ELSE 5

ChunkTexts == {"Para one about photosynthesis.", "Para two about mitosis."}
Questions == {"photosynthesis", "Para two", "about mitosis", "the sun",
              "one"}
Corpora == UNION {[1..n -> ChunkTexts] : n \in 0..MaxCorpus}

stopWords ==
    {"the", "and", "for", "are", "but", "not", "you", "all", "can", "her",
     "was", "one", "our", "out", "has", "have", "been", "being", "some",
     "what", "when", "where", "which", "while", "who", "will", "with",
     "would", "this", "that", "from", "they", "were", "said", "each",
     "their", "there", "about", "could", "should"}

UpperCase == "ABCDEFGHIJKLMNOPQRSTUVWXYZ"
LowerCase == "abcdefghijklmnopqrstuvwxyz"
Digits == "0123456789_"

\* Character i of a string, from 1.
Char(s, i) == SubSeq(s, i, i)

LowerChar(c) ==
    IF \E i \in 1..Len(UpperCase) : Char(UpperCase, i) = c
    THEN Char(LowerCase,
              CHOOSE i \in 1..Len(UpperCase) : Char(UpperCase, i) = c)
    ELSE c

\* s.toLowerCase()
RECURSIVE LowerFrom(_, _)
LowerFrom(s, i) ==
    IF i > Len(s) THEN "" ELSE LowerChar(Char(s, i)) \o LowerFrom(s, i + 1)

toLowerCase(s) == LowerFrom(s, 1)

\* \s and \w of the regular expressions
IsSpace(c) == c \in {" ", "\n", "\t"}
IsWordCharacter(c) ==
    \/ \E i \in 1..Len(LowerCase) : Char(LowerCase, i) = c
    \/ \E i \in 1..Len(UpperCase) : Char(UpperCase, i) = c
    \/ \E i \in 1..Len(Digits) : Char(Digits, i) = c

\* s.split(/\s+/)
RECURSIVE SplitSpace(_, _, _, _, _)
SplitSpace(s, k, words, word, inRun) ==
    IF k > Len(s) THEN Append(words, word)
    ELSE IF ~IsSpace(Char(s, k))
         THEN SplitSpace(s, k + 1, words, word \o Char(s, k), FALSE)
         ELSE IF inRun
              THEN SplitSpace(s, k + 1, words, word, TRUE)
              ELSE SplitSpace(s, k + 1, Append(words, word), "", TRUE)

\* The places, from 0, where needle starts in hay.
Occurrences(hay, needle) ==
    {i \in 0..(Len(hay) - Len(needle)) :
         SubSeq(hay, i + 1, i + Len(needle)) = needle}

\* hay.includes(needle)
Includes(hay, needle) == Occurrences(hay, needle) # {}

\* hay.indexOf(needle)
IndexOf(hay, needle) ==
    IF Includes(hay, needle)
    THEN CHOOSE i \in Occurrences(hay, needle) :
             \A j \in Occurrences(hay, needle) : i <= j
    ELSE -1

\* hay.match(new RegExp(`\\b${word}\\b`, 'gi')): how many matches, for a
\* word of letters.
MatchCount(hay, word) ==
    Cardinality({i \in Occurrences(hay, word) :
        /\ i = 0 \/ ~IsWordCharacter(Char(hay, i))
        /\ \/ i + Len(word) = Len(hay)
           \/ ~IsWordCharacter(Char(hay, i + Len(word) + 1))})

\* Math.log(k) in thousandths, for k from 1 to 12.
LnMilli ==
    <<0, 693, 1099, 1386, 1609, 1792, 1946, 2079, 2197, 2303, 2398, 2485>>

\* Math.log(n / m)
Log(n, m) == LnMilli[n] - LnMilli[m]

Max(a, b) == IF a >= b THEN a ELSE b
Min(a, b) == IF a <= b THEN a ELSE b

\* words.join(' ')
RECURSIVE Join(_)
Join(words) ==
    IF Len(words) = 1 THEN words[1]
    ELSE words[1] \o " " \o Join(Tail(words))

\* questionLower.split(/\s+/).filter(w => w.length > 2)
QuestionWords(questionLower) ==
    SelectSeq(SplitSpace(questionLower, 1, <<>>, "", FALSE),
              LAMBDA w : Len(w) > 2)

\* questionWords.filter(w => !stopWords.has(w))
MeaningfulWords(questionLower) ==
    SelectSeq(QuestionWords(questionLower), LAMBDA w : w \notin stopWords)

\* if (chunkLower.includes(questionLower)) score += 50
ExactPhrase(chunkLower, questionLower) ==
    IF Includes(chunkLower, questionLower) THEN 50000 ELSE 0

\* The bigrams and trigrams of the meaningful words: n * 5 for each one
\* that the chunk includes.
NGrams(chunkLower, words) ==
    SumSeq([k \in 1..2 |->
               LET n == k + 1
                   last == Max(Len(words) - n + 1, 0)
               IN  SumSeq([i \in 1..last |->
                              IF Includes(chunkLower,
                                          Join(SubSeq(words, i, i + n - 1)))
                              THEN n * 5000 ELSE 0],
                          last)],
           2)

\* tf * Math.max(idf, 0.5) * 2 for every meaningful word that the chunk
\* holds as a whole word; lowered is every chunk in lower case.
TfIdf(lowered, chunkLower, words) ==
    SumSeq([k \in DOMAIN words |->
               LET matches == MatchCount(chunkLower, words[k])
                   tf == Min(matches, 5)
                   docsWithWord ==
                       Cardinality({i \in DOMAIN lowered :
                                        Includes(lowered[i], words[k])})
                   idf == Log(Len(lowered) + 1, docsWithWord + 1)
               IN  IF matches > 0 THEN tf * Max(idf, 500) * 2 ELSE 0],
           Len(words))

\* 10 if more than one meaningful word is in the chunk and the average
\* distance between their first places, in order, is under 100.
Proximity(chunkLower, words) ==
    LET found == SelectSeq(words, LAMBDA w : Includes(chunkLower, w))
        positions == {IndexOf(chunkLower, found[k]) : k \in DOMAIN found}
        first == CHOOSE a \in positions : \A b \in positions : a <= b
        last == CHOOSE a \in positions : \A b \in positions : a >= b
    IN  IF Len(found) > 1 /\ last - first < 100 * (Len(found) - 1)
        THEN 10000 ELSE 0

\* The score of a chunk in the advanced scorer.
AdvancedScore(lowered, chunkLower, questionLower) ==
    LET words == MeaningfulWords(questionLower)
    IN  ExactPhrase(chunkLower, questionLower)
        + NGrams(chunkLower, words)
        + TfIdf(lowered, chunkLower, words)
        + Proximity(chunkLower, words)

\* The score of a chunk in the simple scorer: the question's words of more
\* than 3 characters that the chunk includes.
SimpleScore(chunkLower, questionLower) ==
    1000 * Len(SelectSeq(SplitSpace(questionLower, 1, <<>>, "", FALSE),
                         LAMBDA w : Len(w) > 3 /\ Includes(chunkLower, w)))

\* chunks.map(c => c.chunk_text.toLowerCase()), from chunk i on
RECURSIVE LoweredFrom(_, _)
LoweredFrom(chunks, i) ==
    IF i > Len(chunks) THEN <<>>
    ELSE <<toLowerCase(chunks[i])>> \o LoweredFrom(chunks, i + 1)

\* The scored chunks from chunk i on; row is the place of the chunk in the
\* rows that the query returned.
RECURSIVE ScoredFrom(_, _, _, _, _)
ScoredFrom(impl, chunks, lowered, questionLower, i) ==
    IF i > Len(chunks) THEN <<>>
    ELSE <<[row |-> i, chunk_text |-> chunks[i],
            score |-> IF impl = "advanced"
                      THEN AdvancedScore(lowered, lowered[i], questionLower)
                      ELSE SimpleScore(lowered[i], questionLower)]>>
         \o ScoredFrom(impl, chunks, lowered, questionLower, i + 1)

\* chunks.map(chunk => ({ ...chunk, score }))
ScoredChunks(impl, chunks, question) ==
    ScoredFrom(impl, chunks, LoweredFrom(chunks, 1), toLowerCase(question),
               1)

\* .sort((a, b) => b.score - a.score): by falling score, chunks of one
\* score in the order they had.
RECURSIVE SortFrom(_, _, _)
SortFrom(rows, k, sorted) ==
    IF k > Len(rows) THEN sorted
    ELSE LET n == Cardinality({j \in DOMAIN sorted :
                                   sorted[j].score >= rows[k].score})
         IN  SortFrom(rows, k + 1,
                      SubSeq(sorted, 1, n) \o <<rows[k]>>
                          \o SubSeq(sorted, n + 1, Len(sorted)))

\* .filter(c => c.score > 0), which only the advanced scorer has
PositiveOnly(impl, rows) ==
    IF impl = "advanced" THEN SelectSeq(rows, LAMBDA c : c.score > 0)
    ELSE rows

\* relevantChunks
RelevantChunks(impl, chunks, question) ==
    LET sorted == SortFrom(PositiveOnly(impl,
                               ScoredChunks(impl, chunks, question)),
                           1, <<>>)
    IN  SubSeq(sorted, 1, Min(Len(sorted), TopK(impl)))

\* The rows that the query returned: all, or the first 10.
Fetched(impl, stored) ==
    IF impl = "advanced" THEN stored
    ELSE SubSeq(stored, 1, Min(Len(stored), limit))

\* A question arrives; the user has some chunks stored.
ScorerInit ==
    /\ PipelineInit
    /\ ck = NoChunking
    /\ vz = NoVectorizing
    /\ sc \in {[NoScoring EXCEPT !.phase = "asked", !.impl = impl,
                                 !.chunks = Fetched(impl, stored),
                                 !.question = q]
                 : impl \in ChatImpls, stored \in Corpora, q \in Questions}
    /\ rt = NoRetrieval
    /\ del = NoDelete
    /\ chat = NoChat
    /\ ui = NoUpload

Retrieve ==
    /\ sc.phase = "asked"
    /\ sc' = [sc EXCEPT !.phase = "answered",
                        !.relevantChunks =
                            IF Len(sc.chunks) > 0
                            THEN RelevantChunks(sc.impl, sc.chunks,
                                                sc.question)
                            ELSE <<>>]
    /\ UNCHANGED <<pipeline, ck, vz, rt, del, chat, ui>>

ScorerNext == Retrieve

SpecScorer == ScorerInit /\ [][ScorerNext]_vars

\* ------------------------------------------------ retrieval from the table
\* A chat request: the user of the token, the rows of document_chunks that
\* the query returns for that user, their scores, the chunks returned.

\* Most rows the table document_chunks holds.
MaxRows == 2
TableTexts ==
    {"red of blue of green of gold", "of of of red blue green gold",
     "Cells divide."}
TableQuestions == {"red of blue of green of gold"}

\* The table as the sequence of its rows in the order of their insertion.
\* Each user has one document, and its chunks were inserted in the order
\* of their chunk_index.
Tables ==
    UNION {[1..n -> [user_id : Users, chunk_text : TableTexts]]
             : n \in 0..MaxRows}

\* The rows of the table, each with its chunk_index.
StoredRows(table) ==
    {[id |-> i, user_id |-> table[i].user_id,
      chunk_index |-> Cardinality({j \in 1..(i - 1) :
                                       table[j].user_id = table[i].user_id}),
      chunk_text |-> table[i].chunk_text] : i \in DOMAIN table}

\* Every order in which a query without ORDER BY can return a set of rows.
Orders(rows) ==
    {f \in [1..Cardinality(rows) -> rows] :
         \A i, j \in 1..Cardinality(rows) : i # j => f[i] # f[j]}

\* A query that returns the rows of every user.
SelectedRowsOfAll(table, user) == StoredRows(table)

\* .from('document_chunks').select(...).eq('user_id', user.id)
SelectedRows(table, user) == {row \in StoredRows(table) : row.user_id = user}

\* The chunks returned: the scored rows of relevantChunks, each with the
\* row of the table it came from.
Ranked(impl, chunks, question) ==
    LET relevant == RelevantChunks(impl,
                        [i \in DOMAIN chunks |-> chunks[i].chunk_text],
                        question)
    IN  [k \in DOMAIN relevant |->
            [id |-> chunks[relevant[k].row].id,
             user_id |-> chunks[relevant[k].row].user_id,
             chunk_index |-> chunks[relevant[k].row].chunk_index,
             chunk_text |-> relevant[k].chunk_text,
             score |-> relevant[k].score]]

RetrievalInit ==
    /\ PipelineInit
    /\ ck = NoChunking
    /\ vz = NoVectorizing
    /\ sc = NoScoring
    /\ rt \in {[NoRetrieval EXCEPT !.phase = "auth", !.impl = impl,
                                   !.token = token, !.table = table,
                                   !.question = q]
                 : impl \in ChatImpls, token \in Tokens, table \in Tables,
                   q \in TableQuestions}
    /\ del = NoDelete
    /\ chat = NoChat
    /\ ui = NoUpload

\* supabase.auth.getUser(token); if (userError || !user) throw
ChatGetUser ==
    /\ rt.phase = "auth"
    /\ rt' = IF rt.token \in Users
             THEN [rt EXCEPT !.phase = "query", !.user = rt.token]
             ELSE [rt EXCEPT !.phase = "failed"]
    /\ UNCHANGED <<pipeline, ck, vz, sc, del, chat, ui>>

\* The query of document_chunks, in whatever order the store returns the
\* rows (the simple scorer: the first 10 of them).
FetchChunks ==
    /\ rt.phase = "query"
    /\ \E order \in Orders(SelectedRows(rt.table, rt.user)) :
          rt' = [rt EXCEPT !.phase = "fetched",
                           !.chunks = Fetched(rt.impl, order)]
    /\ UNCHANGED <<pipeline, ck, vz, sc, del, chat, ui>>

\* The scoring of the fetched chunks.
ScoreChunks ==
    /\ rt.phase = "fetched"
    /\ rt' = [rt EXCEPT !.phase = "answered",
                        !.relevantChunks =
                            IF Len(rt.chunks) > 0
                            THEN Ranked(rt.impl, rt.chunks, rt.question)
                            ELSE <<>>]
    /\ UNCHANGED <<pipeline, ck, vz, sc, del, chat, ui>>

RetrievalNext == ChatGetUser \/ FetchChunks \/ ScoreChunks

SpecRetrieval == RetrievalInit /\ [][RetrievalNext]_vars

\* ------------------------------------------------------------ properties

InOrder(s) == \E k \in 1..Len(UPLOAD_STEPS) : UPLOAD_STEPS[k] = s
Rank(s) == CHOOSE k \in 1..Len(UPLOAD_STEPS) : UPLOAD_STEPS[k] = s
LastStatus(r) == statusLog[r][Len(statusLog[r])].value
ChunksOf(r) == {c \in document_chunks : c.document_id = r}
\* The run ended in the catch block because a chunk insert returned an error:
\* after the storing_chunks update nothing else can throw.
InsertFailed(r) ==
    /\ pc[r] = "done"
    /\ ~response[r].success
    /\ Len(statusLog[r]) > 0
    /\ LastStatus(r) = "storing_chunks"

\* C1: within one run, no status is written that is earlier in the order
\* uploading < extracting_text < chunking < storing_chunks < completed than
\* a status the run wrote before it, and the persisted status never ranks
\* below a status of the order written before.
C1_MonotonicStatus ==
    \A r \in Runs :
        /\ \A i, j \in 1..Len(statusLog[r]) :
              (/\ i < j
               /\ InOrder(statusLog[r][i].value)
               /\ InOrder(statusLog[r][j].value))
              => Rank(statusLog[r][i].value) <= Rank(statusLog[r][j].value)
        /\ \A i \in 1..Len(statusLog[r]) :
              (/\ documents[r].exists
               /\ statusLog[r][i].accepted
               /\ InOrder(statusLog[r][i].value)
               /\ InOrder(documents[r].upload_status))
              => Rank(statusLog[r][i].value) <= Rank(documents[r].upload_status)

\* A run that wrote its statuses up to completed.
C1_Witness ==
    \E r \in Runs :
        /\ Len(statusLog[r]) >= 5
        /\ LastStatus(r) = "completed"
        /\ documents[r].upload_status = "completed"

\* C2: a run that ended after its Document record was created leaves the
\* document in a terminal status (completed, or error if a stage failed).
C2_FailureSetsError ==
    \A r \in Runs :
        (pc[r] = "done" /\ documents[r].exists)
        => /\ documents[r].upload_status \in {"completed", "error"}
           /\ ~response[r].success => documents[r].upload_status = "error"

\* C3: the response is sent before extraction begins and before any status
\* write after the initial one.
C3_ResponseBeforeExtraction ==
    \A r \in Runs :
        (extractStarted[r] \/ Len(statusLog[r]) > 1) => response[r].sent

\* C4: when the insert of a batch fails, the document ends in status error
\* and no chunk of the failed batch or of a later one is in storage.
C4_BatchFailure ==
    \A r \in Runs :
        InsertFailed(r)
        => /\ documents[r].upload_status = "error"
           /\ \A c \in ChunksOf(r) : c.chunk_index < loc[r].i

\* C5: a completed document has as many stored chunks as its total_chunks.
C5_CompletedHasAllChunks ==
    \A r \in Runs :
        (documents[r].exists /\ documents[r].upload_status = "completed")
        => Cardinality(ChunksOf(r)) = documents[r].total_chunks

\* C6: total_chunks never exceeds MAX_CHUNKS, and a completed document
\* whose text holds more chunks than MAX_CHUNKS has exactly MAX_CHUNKS of
\* them, the first ones.
C6_CapEnforced ==
    \A r \in Runs :
        /\ documents[r].total_chunks <= MAX_CHUNKS
        /\ (/\ documents[r].upload_status = "completed"
            /\ loc[r].textChunks > MAX_CHUNKS)
           => /\ documents[r].total_chunks = MAX_CHUNKS
              /\ {c.chunk_index : c \in ChunksOf(r)} = 0..(MAX_CHUNKS - 1)

\* C7: a request without a file or without a resolvable credential gets a
\* client-error response and creates no Document record.
C7_ClientErrorOnInvalid ==
    \A r \in Runs :
        (pc[r] = "done" /\ (req[r].token \notin Users \/ ~req[r].hasFile))
        => /\ response[r].status \in 400..499
           /\ ~documents[r].exists

\* C8: a request that supplies a storage path outside the caller's own
\* namespace is rejected and creates no Document record, and every object
\* the run touches lies under the caller's prefix.
C8_ForeignPathRejected ==
    \A r \in Runs :
        /\ (/\ loc[r].user # NoUser
            /\ req[r].pathOwner \notin {NoUser, loc[r].user})
           => /\ ~documents[r].exists
              /\ ~response[r].success
        /\ documents[r].exists => documents[r].file_path = loc[r].user

\* C9: the pipeline writes only uploading, extracting_text, chunking,
\* storing_chunks, completed and error, and the store accepts every write.
C9_StatusValues ==
    \A r \in Runs : \A i \in 1..Len(statusLog[r]) :
        /\ statusLog[r][i].value \in
              {"uploading", "extracting_text", "chunking", "storing_chunks",
               "completed", "error"}
        /\ statusLog[r][i].accepted

\* C10: the first status of every run is uploading.
C10_FirstStatusUploading ==
    \A r \in Runs :
        Len(statusLog[r]) > 0 => statusLog[r][1].value = "uploading"

\* C11: a document that has not reached completed still has the
\* total_chunks it was created with (the column default 0): no run writes
\* total_chunks before or without the completed update.
C11_TotalChunksOnlyOnCompleted ==
    \A r \in Runs :
        (documents[r].exists /\ documents[r].upload_status # "completed")
        => documents[r].total_chunks = NoDoc.total_chunks

\* A batched run that stored a first batch, failed on a later one and left
\* total_chunks untouched.
C11_Witness ==
    \E r \in Runs :
        /\ InsertFailed(r)
        /\ loc[r].validChunks > 0
        /\ Cardinality(ChunksOf(r)) > 0
        /\ documents[r].total_chunks = 0

\* C12: the chunk_index values stored for a document are exactly
\* 0..n-1 for the n chunks stored, also when the vectorization of a chunk
\* failed.
C12_ContiguousIndices ==
    \A r \in Runs :
        {c.chunk_index : c \in ChunksOf(r)} =
            0..(Cardinality(ChunksOf(r)) - 1)

\* C14: extraction never aborts a run: once it has started, the run holds
\* an extracted text (the decoded text or a placeholder) and goes on.
C14_ExtractionNeverAborts ==
    \A r \in Runs :
        extractStarted[r] => loc[r].extractedText # "unset"

\* C13: every stored chunk names one document, which exists, and one
\* owner, who is the owner of that document, whoever else is ingesting.
C13_ChunkOwnership ==
    \A c \in document_chunks :
        /\ c.document_id \in Runs
        /\ documents[c.document_id].exists
        /\ c.user_id \in Users
        /\ c.user_id = documents[c.document_id].user_id

\* Chunks of two documents of two different owners are in the store.
C13_Witness ==
    \E c1, c2 \in document_chunks :
        /\ c1.document_id # c2.document_id
        /\ c1.user_id # c2.user_id

\* C15: the text that extraction hands to the chunker never has more
\* characters than the budget MAX_TEXT_CHARS, whatever the file's size.
C15_TextWithinBudget ==
    ck.phase \in {"extracted", "chunked"}
        => TextLen(ck.extractedText) <= MAX_TEXT_CHARS

Chunked == ck.phase = "chunked"

\* The chunks of a sequence of chunks, as a set.
ChunkSet(chunks) == {chunks[i] : i \in DOMAIN chunks}

\* C16: every chunk of the chunker has at most maxChunkSize characters,
\* unless it is one single word longer than that; two paragraphs merged
\* with their blank line are no exception.
C16_ChunkSizeBound ==
    Chunked => \A c \in ChunkSet(ck.validChunks) :
                   \/ c.len <= maxChunkSize
                   \/ Len(c.toks) = 1

\* A text of two paragraphs around one blank line, shorter than a chunk.
TwoSmallParagraphs(t) ==
    /\ Len(Split(t)) = 2
    /\ TextLen(t) < maxChunkSize

\* C17, as stated: two paragraphs separated by a blank line, together
\* shorter than the limit, come out as exactly 2 chunks.
C17_TwoParagraphsTwoChunks ==
    (Chunked /\ TwoSmallParagraphs(ck.extractedText))
        => Len(ck.validChunks) = 2

\* C17, amended: two such paragraphs come out as one chunk that holds both
\* with their blank line, and as none if that chunk has 10 characters or
\* fewer.
C17_TwoParagraphsOneChunk ==
    (Chunked /\ TwoSmallParagraphs(ck.extractedText))
        => LET t == ck.extractedText
               whole == [toks |-> [k \in 1..Len(t.words) |-> k],
                         len |-> TextLen(t)]
           IN  /\ ck.chunks = <<whole>>
               /\ ck.validChunks = IF TextLen(t) > 10 THEN <<whole>> ELSE <<>>

C17_Witness ==
    /\ Chunked
    /\ TwoSmallParagraphs(ck.extractedText)
    /\ Len(ck.validChunks) = 1
    /\ ck.validChunks[1].len > 750

\* The words of a sequence of chunks, chunk after chunk.
RECURSIVE Flatten(_)
Flatten(chunks) ==
    IF chunks = <<>> THEN <<>> ELSE Head(chunks).toks \o Flatten(Tail(chunks))

\* The length of the part of the text from word a to word b.
RECURSIVE SubLen(_, _, _)
SubLen(t, a, b) ==
    IF a = b THEN t.words[a]
    ELSE SubLen(t, a, b - 1) + SepLen(t.seps[b - 1]) + t.words[b]

\* C18: the chunks, one after the other, are the words of the extracted
\* text in their order, each once, every chunk a stretch of the text with
\* its separators; the chunks returned are these in the same order, less
\* the ones of 10 characters or fewer.
C18_ChunkCoverage ==
    Chunked =>
        LET t == ck.extractedText
            kept == Flatten(ck.validChunks)
        IN  /\ Flatten(ck.chunks) = [k \in 1..Len(t.words) |-> k]
            /\ \A c \in ChunkSet(ck.chunks) :
                   /\ c.toks # <<>>
                   /\ c.len = SubLen(t, c.toks[1], c.toks[Len(c.toks)])
            /\ \A i, j \in DOMAIN kept : i < j => kept[i] < kept[j]
            /\ \A k \in 1..Len(t.words) :
                   (\A i \in DOMAIN kept : kept[i] # k)
                       => \E c \in ChunkSet(ck.chunks) :
                              /\ c.len <= 10
                              /\ \E i \in DOMAIN c.toks : c.toks[i] = k
            /\ \A c \in ChunkSet(ck.validChunks) : c.len > 10

\* A paragraph split by words, next to a fragment that is discarded.
C18_Witness ==
    /\ Chunked
    /\ \E p \in DOMAIN Split(ck.extractedText) :
           /\ Len(Split(ck.extractedText)[p]) > 1
           /\ ParaLen(ck.extractedText, Split(ck.extractedText)[p])
                  > maxChunkSize
    /\ Len(ck.validChunks) >= 2
    /\ Len(ck.validChunks) < Len(ck.chunks)

\* The squared L2 norm of a returned vector is 1.
NormIsOne(v) == SumSquares(v.num, 0, VectorSize - 1) = v.den2

IsZeroVector(v) == \A p \in DOMAIN v.num : v.num[p] = 0

\* The text holds a run of more than 2 letters, digits or underscores.
HasLongWord(text) ==
    \E a \in DOMAIN text :
        /\ a + 2 \in DOMAIN text
        /\ \A k \in a..(a + 2) : IsWordChar(text[k])

Answered == sc.phase = "answered"

\* C20: the scorer returns at most K chunks and none whose score is zero;
\* asked for "photosynthesis" over the photosynthesis chunk and the
\* mitosis chunk, it returns the photosynthesis chunk only.
C20_TopKNoZeroScore ==
    Answered =>
        /\ Len(sc.relevantChunks) <= TopK(sc.impl)
        /\ \A i \in DOMAIN sc.relevantChunks : sc.relevantChunks[i].score > 0
        /\ (/\ sc.question = "photosynthesis"
            /\ sc.chunks = <<"Para one about photosynthesis.",
                             "Para two about mitosis.">>)
               => /\ Len(sc.relevantChunks) = 1
                  /\ sc.relevantChunks[1].row = 1

RtAnswered == rt.phase = "answered"

\* C21: of two returned chunks with the same score the one with the lower
\* sequence index comes first, in whatever order the store returned the
\* rows.
C21_TiesByChunkIndex ==
    RtAnswered =>
        \A i, j \in DOMAIN rt.relevantChunks :
            (/\ i < j
             /\ rt.relevantChunks[i].score = rt.relevantChunks[j].score)
                => rt.relevantChunks[i].chunk_index
                       < rt.relevantChunks[j].chunk_index

\* The place of a fetched row in the returned list, 0 if it is not there.
PlaceOf(row) ==
    IF \E k \in DOMAIN rt.relevantChunks : rt.relevantChunks[k].id = row.id
    THEN CHOOSE k \in DOMAIN rt.relevantChunks :
             rt.relevantChunks[k].id = row.id
    ELSE 0

\* Chunk b holds every word of the question as often as chunk a does.
SameWordFrequency(a, b, questionLower) ==
    LET words == SplitSpace(questionLower, 1, <<>>, "", FALSE)
    IN  \A k \in DOMAIN words :
            /\ MatchCount(toLowerCase(a.chunk_text), words[k]) > 0
            /\ MatchCount(toLowerCase(a.chunk_text), words[k])
                   = MatchCount(toLowerCase(b.chunk_text), words[k])

\* C22: a chunk that holds the whole question, in lower case, is ranked
\* strictly above every chunk that holds the question's words as often
\* but not the question itself.
C22_PhraseOutranks ==
    RtAnswered =>
        \A i, j \in DOMAIN rt.chunks :
            LET a == rt.chunks[i]
                b == rt.chunks[j]
                questionLower == toLowerCase(rt.question)
            IN  (/\ Includes(toLowerCase(a.chunk_text), questionLower)
                 /\ ~Includes(toLowerCase(b.chunk_text), questionLower)
                 /\ SameWordFrequency(a, b, questionLower))
                    => /\ PlaceOf(a) > 0
                       /\ PlaceOf(b) = 0 \/ PlaceOf(a) < PlaceOf(b)

\* The table without the rows of the users other than user.
OwnTable(table, user) == SelectSeq(table, LAMBDA row : row.user_id = user)

\* A list of rows without the ids that the store gave them.
WithoutIds(rows) ==
    [k \in DOMAIN rows |->
        [x \in (DOMAIN rows[k]) \ {"id"} |-> rows[k][x]]]

\* C23: only chunks of the user who asks are fetched, scored and returned,
\* and the answer is the one the same request gets from the table with
\* every row of the other users taken away.
C23_OwnerIsolation ==
    RtAnswered =>
        LET own == StoredRows(OwnTable(rt.table, rt.user))
            alone == [k \in DOMAIN rt.chunks |->
                         CHOOSE row \in own :
                             row.chunk_index = rt.chunks[k].chunk_index]
        IN  /\ \A k \in DOMAIN rt.chunks : rt.chunks[k].user_id = rt.user
            /\ \A k \in DOMAIN rt.relevantChunks :
                   rt.relevantChunks[k].user_id = rt.user
            /\ Len(rt.chunks) = Cardinality(own)
            /\ WithoutIds(rt.relevantChunks)
                   = IF Len(rt.chunks) > 0
                     THEN WithoutIds(Ranked(rt.impl, alone, rt.question))
                     ELSE <<>>

\* The user who asks gets an answer while the other user holds a chunk
\* that matches the question.
C23_Witness ==
    /\ RtAnswered
    /\ Len(rt.relevantChunks) = 1
    /\ \E i \in DOMAIN rt.table :
           /\ rt.table[i].user_id # rt.user
           /\ rt.table[i].chunk_text = rt.question

\* C24: once a document is deleted no chunk that references it is in the
\* table, in every state, also when the ingestion run of the document is
\* still writing chunks.
C24_NoChunkOfDeletedDocument ==
    \A r \in Runs :
        del[r] = "done"
            => /\ ~documents[r].exists
               /\ \A c \in document_chunks : c.document_id # r

\* The document was deleted between two batches of its run, which then
\* tried the next insert.
C24_Witness ==
    /\ del[Solo] = "done"
    /\ req[Solo].impl = "batched"
    /\ loc[Solo].i = batchSize
    /\ Cardinality(loc[Solo].chunkRecords) > batchSize
    /\ pc[Solo] = "done"
    /\ response[Solo].status = 500

\* The store accepted a write of status by run r.
StatusWasSet(r, status) ==
    \E i \in 1..Len(statusLog[r]) :
        /\ statusLog[r][i].value = status
        /\ statusLog[r][i].accepted

\* C25: the stages of a run follow one another: no chunk record of the
\* run is in the table before its status was set to storing_chunks, and
\* its status is completed only once every chunk record of the run is
\* written.
C25_StagesSequential ==
    \A r \in Runs :
        /\ ChunksOf(r) # {} => StatusWasSet(r, "storing_chunks")
        /\ (documents[r].exists /\ documents[r].upload_status = "completed")
               => loc[r].chunkRecords \subseteq document_chunks

\* C26: a chat request made while documents are ingested returns no chunk
\* of a document whose status is not completed.
C26_OnlyCompletedDocuments ==
    \A x \in chat.returned : x.upload_status = "completed"

\* C27: a chunk whose keyword call failed still gets a record with its
\* own index: once the records of a run are built there is one for every
\* index of its chunks.
C27_EveryChunkHasRecord ==
    \A r \in Runs :
        pc[r] \in {"store", "setCompleted"}
            => {c.chunk_index : c \in loc[r].chunkRecords}
                   = 0..(loc[r].validChunks - 1)

\* The run r took no step in the transition at hand.
Idle(r) == pc'[r] = pc[r] /\ loc'[r] = loc[r]

\* C28: with two documents ingested at once, a step of one run leaves the
\* other run's document row (status, total_chunks) and chunk records as
\* they were.
C28_RunsDoNotInterfere ==
    [][\A r \in Runs :
          Idle(r) => /\ documents'[r] = documents[r]
                     /\ ChunksOf(r)' = ChunksOf(r)]_vars

\* Both documents exist with chunk records, both of one owner, one completed
\* and the other not.
C28_Witness ==
    /\ \A r \in Runs : documents[r].exists /\ ChunksOf(r) # {}
    /\ documents["r1"].user_id = documents["r2"].user_id
    /\ documents["r1"].upload_status = "completed"
    /\ documents["r2"].upload_status = "storing_chunks"

\* C29: a success response means the persisted status is completed and the
\* persisted total_chunks is the chunksProcessed of the response, and no
\* status update of the run was rejected by the store.
C29_SuccessMeansPersisted ==
    \A r \in Runs :
        (pc[r] = "done" /\ response[r].status = 200)
            => /\ documents[r].upload_status = "completed"
               /\ documents[r].total_chunks = response[r].chunksProcessed
               /\ \A i \in 1..Len(statusLog[r]) : statusLog[r][i].accepted

\* C30: once the invocation for a file has resolved, no polling interval
\* of that file is active and none is still to be started.
C30_NoPollingAfterResolve ==
    \A f \in ui.resolved : f \notin ui.intervals /\ f \notin ui.timers

=============================================================================
